---- MODULE Spec2Model ----
(***************************************************************************)
(* Model of python/hvac_ircontrol/mitsubishi.py: the construction of the   *)
(* 18-byte Mitsubishi HVAC command frame by Mitsubishi.__send_command and  *)
(* its hand-over to the IR sender, as driven by the two public operations  *)
(* power_off and send_command.                                             *)
(*                                                                         *)
(* Python conventions used below:                                          *)
(*   - data[i] (0-based) is data[i + 1] here (TLA+ sequences are 1-based); *)
(*   - Python's None is the integer -1 (every code, and every time of day  *)
(*     is a natural number);                                               *)
(*   - a time of day (datetime / time object) is the number of minutes     *)
(*     since midnight; .hour and .minute are hour(t) and minute(t).        *)
(***************************************************************************)
EXTENDS Integers, Sequences, FiniteSets

VARIABLES
    call,          \* arguments of the most recent __send_command call
    now,           \* datetime.today() as read by that call
    outcome,       \* "none" (no call yet), "ok", or "TypeError" (call raised)
    data,          \* the list `data` of that call, as the call left it
    sent,          \* the frame handed to sender.send_data (<<>>: nothing handed)
    wire,          \* the pulse/gap segments emitted for that call
    ref,           \* history: one remembered earlier call and its frame
    prev_outcome   \* history: outcome of the call before the most recent one

vars == <<call, now, outcome, data, sent, wire, ref, prev_outcome>>

None == -1

(***************************************************************************)
(* Bounds of the explored inputs.                                          *)
(***************************************************************************)
TempBelow == 6       \* temperatures from MinTemp - TempBelow ...
TempAbove == 9       \* ... to MaxTemp + TempAbove
HourStride == 12     \* hours 0, HourStride, 2*HourStride, ... and 23
MinuteStride == 30   \* minutes 0, MinuteStride, ... and 59

(***************************************************************************)
(* Enumerations (class attributes of the source).                          *)
(***************************************************************************)
PowerMode_PowerOff == 0
PowerMode_PowerOn == 32

ClimateMode_Hot == 8
ClimateMode_Cold == 24
ClimateMode_Dry == 16
ClimateMode_Auto == 32

ClimateMode_Hot2 == 8
ClimateMode_Cold2 == 24
ClimateMode_Dry2 == 16
ClimateMode_Auto2 == 32

ISeeMode_NotAvailable == 0
ISeeMode_ISeeOff == 0
ISeeMode_ISeeOn == 64

VanneHorizontalMode_NotAvailable == 0
VanneHorizontalMode_LeftEnd == 64
VanneHorizontalMode_Left == 72
VanneHorizontalMode_Middle == 80
VanneHorizontalMode_Right == 88
VanneHorizontalMode_RightEnd == 96
VanneHorizontalMode_Swing == 104

FanMode_Speed1 == 1
FanMode_Speed2 == 2
FanMode_Speed3 == 3
FanMode_Speed4 == 4
FanMode_Auto == 128
FanMode_Silent == 5

VanneVerticalMode_Auto == 64
VanneVerticalMode_WvH1 == 72
VanneVerticalMode_WvH2 == 80
VanneVerticalMode_WvH3 == 88
VanneVerticalMode_WvH4 == 96
VanneVerticalMode_WvH5 == 104
VanneVerticalMode_Swing == 120

TimeControlMode_NoTimeControl == 0
TimeControlMode_ControlStart == 0
TimeControlMode_ControlEnd == 0
TimeControlMode_ControlBoth == 0

AreaMode_NotAvailable == 0
AreaMode_NotSet == 0
AreaMode_Left == 0
AreaMode_Right == 0
AreaMode_Full == 0

Delay_HdrMark == 3400
Delay_HdrSpace == 1750
Delay_BitMark == 450
Delay_OneSpace == 1300
Delay_ZeroSpace == 420
Delay_RptMark == 440
Delay_RptSpace == 17100

Index_Header0 == 0
Index_Header4 == 4
Index_Power == 5
Index_ClimateAndISee == 6
Index_Temperature == 7
Index_ClimateAndHorizontalVanne == 8
Index_FanAndVerticalVanne == 9
Index_Clock == 10
Index_EndTime == 11
Index_StartTime == 12
Index_TimeControlAndArea == 13
Index_Unused14 == 14
Index_Unused16 == 16
Index_CRC == 17

Constants_MinTemp == 16
Constants_MaxTemp == 31
Constants_MaxMask == 255
Constants_NbBytes == 18
Constants_NbPackets == 2

ClimateModes ==
    {ClimateMode_Hot, ClimateMode_Cold, ClimateMode_Dry, ClimateMode_Auto}
ISeeModes == {ISeeMode_NotAvailable, ISeeMode_ISeeOff, ISeeMode_ISeeOn}
VanneHorizontalModes ==
    {VanneHorizontalMode_NotAvailable, VanneHorizontalMode_LeftEnd,
     VanneHorizontalMode_Left, VanneHorizontalMode_Middle,
     VanneHorizontalMode_Right, VanneHorizontalMode_RightEnd,
     VanneHorizontalMode_Swing}
FanModes ==
    {FanMode_Speed1, FanMode_Speed2, FanMode_Speed3, FanMode_Speed4,
     FanMode_Auto, FanMode_Silent}
VanneVerticalModes ==
    {VanneVerticalMode_Auto, VanneVerticalMode_WvH1, VanneVerticalMode_WvH2,
     VanneVerticalMode_WvH3, VanneVerticalMode_WvH4, VanneVerticalMode_WvH5,
     VanneVerticalMode_Swing}
AreaModes ==
    {AreaMode_NotAvailable, AreaMode_NotSet, AreaMode_Left, AreaMode_Right,
     AreaMode_Full}

(***************************************************************************)
(* Python built-ins used by the source.                                    *)
(***************************************************************************)
Bit(x, k) == (x \div (2 ^ k)) % 2

\* a | b on non-negative integers below 2^8
Or(a, b) ==
    LET f[k \in 0..8] ==
            IF k = 8 THEN 0
            ELSE (IF Bit(a, k) = 1 \/ Bit(b, k) = 1 THEN 2 ^ k ELSE 0) + f[k + 1]
    IN  f[0]

max(a, b) == IF a >= b THEN a ELSE b
min(a, b) == IF a <= b THEN a ELSE b

\* sum(s)
sum(s) ==
    LET f[i \in 0..Len(s)] == IF i = 0 THEN 0 ELSE f[i - 1] + s[i]
    IN  f[Len(s)]

hour(t) == t \div 60
minute(t) == t % 60

(***************************************************************************)
(* ClimateMode.climate2: falls off the end (returns None) for a value that *)
(* is none of the four codes.                                              *)
(***************************************************************************)
climate2_default(climate_mode) ==
    IF climate_mode = ClimateMode_Hot THEN ClimateMode_Hot2
    ELSE IF climate_mode = ClimateMode_Cold THEN ClimateMode_Cold2
    ELSE IF climate_mode = ClimateMode_Dry THEN ClimateMode_Dry2
    ELSE ClimateMode_Auto2

climate2(climate_mode) ==
    IF climate_mode = ClimateMode_Hot THEN ClimateMode_Hot2
    ELSE IF climate_mode = ClimateMode_Cold THEN ClimateMode_Cold2
    ELSE IF climate_mode = ClimateMode_Dry THEN ClimateMode_Dry2
    ELSE IF climate_mode = ClimateMode_Auto THEN ClimateMode_Auto2
    ELSE None

(***************************************************************************)
(* The protocol configuration given to ir_sender.IrSender.                 *)
(***************************************************************************)
ProfileSwapped ==
    [leading_pulse_duration  |-> Delay_HdrMark,
     leading_gap_duration    |-> Delay_HdrSpace,
     one_pulse_duration      |-> Delay_BitMark,
     one_gap_duration        |-> Delay_ZeroSpace,
     zero_pulse_duration     |-> Delay_BitMark,
     zero_gap_duration       |-> Delay_OneSpace,
     trailing_pulse_duration |-> Delay_RptMark,
     trailing_gap_duration   |-> Delay_RptSpace]

Profile ==
    [leading_pulse_duration  |-> Delay_HdrMark,
     leading_gap_duration    |-> Delay_HdrSpace,
     one_pulse_duration      |-> Delay_BitMark,
     one_gap_duration        |-> Delay_OneSpace,
     zero_pulse_duration     |-> Delay_BitMark,
     zero_gap_duration       |-> Delay_ZeroSpace,
     trailing_pulse_duration |-> Delay_RptMark,
     trailing_gap_duration   |-> Delay_RptSpace]

(***************************************************************************)
(* ir_sender.IrSender.send_data (module ir_sender is not part of the       *)
(* sources at hand; modelled from the protocol description): header, then  *)
(* every byte least-significant bit first, then the trailer, the whole     *)
(* `repeat` times.  The emitted line is a sequence of signed durations in  *)
(* microseconds: pulse(d) is a carrier-modulated pulse of d, gap(d) an     *)
(* idle gap of d.                                                          *)
(***************************************************************************)
pulse(d) == d
gap(d) == 0 - d

send_bit(p, b) ==
    IF b = 1
    THEN <<pulse(p.one_pulse_duration), gap(p.one_gap_duration)>>
    ELSE <<pulse(p.zero_pulse_duration), gap(p.zero_gap_duration)>>

send_byte(p, byte) ==
    LET f[k \in 0..8] ==
            IF k = 8 THEN <<>> ELSE send_bit(p, Bit(byte, k)) \o f[k + 1]
    IN  f[0]

send_packet(p, d) ==
    LET body[i \in 0..Len(d)] ==
            IF i = 0 THEN <<>> ELSE body[i - 1] \o send_byte(p, d[i])
    IN  <<pulse(p.leading_pulse_duration), gap(p.leading_gap_duration)>>
        \o body[Len(d)]
        \o <<pulse(p.trailing_pulse_duration), gap(p.trailing_gap_duration)>>

send_data(p, d, repeat) ==
    LET f[n \in 0..repeat] ==
            IF n = 0 THEN <<>> ELSE f[n - 1] \o send_packet(p, d)
    IN  f[repeat]

\* line 249 without the repetition
TransmitOnce(d) == send_data(Profile, d, 1)
\* sender.send_data(data, Constants.MaxMask, True, Constants.NbPackets)
Transmit(d) == send_data(Profile, d, Constants_NbPackets)

(***************************************************************************)
(* Mitsubishi.__send_command.                                              *)
(***************************************************************************)
Template ==
    <<35, 203, 38, 1, 0, 32, 8, 6, 48, 69, 103, 0, 0, 0, 0, 0, 0, 31>>

\* data[i] = v
Set(d, i, v) == [d EXCEPT ![i + 1] = v]

ClampNone(temperature) == temperature - 16
Clamp(temperature) ==
    max(Constants_MinTemp, min(Constants_MaxTemp, temperature)) - 16

TimeByte(t) == IF t = None THEN 0 ELSE hour(t) * (minute(t) \div 10)

TimeControl(start_time, end_time) ==
    IF end_time # None /\ start_time # None THEN TimeControlMode_ControlBoth
    ELSE IF end_time # None THEN TimeControlMode_ControlEnd
    ELSE IF start_time # None THEN TimeControlMode_ControlStart
    ELSE TimeControlMode_NoTimeControl

CRCAll(d) == sum(d) % (Constants_MaxMask + 1)
\* sum(data[:-1]) % (Constants.MaxMask + 1)
CRC(d) == sum(SubSeq(d, 1, Len(d) - 1)) % (Constants_MaxMask + 1)

\* lines 222-224: the stores made before climate2 is called
FillHead(d, a) ==
    LET d1 == Set(d, Index_Power, a.power_mode)
        d2 == Set(d1, Index_ClimateAndISee, Or(a.climate_mode, a.isee_mode))
    IN  Set(d2, Index_Temperature, Clamp(a.temperature))

\* lines 225-247: the remaining stores, c2 being climate2's (non-None) result
FillTail(d, a, t, c2) ==
    LET d4 == Set(d, Index_ClimateAndHorizontalVanne,
                  Or(c2, a.vanne_horizontal_mode))
        d5 == Set(d4, Index_FanAndVerticalVanne,
                  Or(a.fan_mode, a.vanne_vertical_mode))
        d6 == Set(d5, Index_Clock, hour(t) * (minute(t) \div 10))
        d7 == Set(d6, Index_EndTime, TimeByte(a.end_time))
        d8 == Set(d7, Index_StartTime, TimeByte(a.start_time))
        d9 == Set(d8, Index_TimeControlAndArea,
                  Or(TimeControl(a.start_time, a.end_time), a.area_mode))
    IN  Set(d9, Index_CRC, CRC(d9))

\* the same with one list shared by all calls, the time bytes being stored
\* only when a time is given
FillTailKeep(d, a, t, c2) ==
    LET d4 == Set(d, Index_ClimateAndHorizontalVanne,
                  Or(c2, a.vanne_horizontal_mode))
        d5 == Set(d4, Index_FanAndVerticalVanne,
                  Or(a.fan_mode, a.vanne_vertical_mode))
        d6 == Set(d5, Index_Clock, hour(t) * (minute(t) \div 10))
        d7 == IF a.end_time = None THEN d6
              ELSE Set(d6, Index_EndTime, TimeByte(a.end_time))
        d8 == IF a.start_time = None THEN d7
              ELSE Set(d7, Index_StartTime, TimeByte(a.start_time))
        d9 == Set(d8, Index_TimeControlAndArea,
                  Or(TimeControl(a.start_time, a.end_time), a.area_mode))
    IN  Set(d9, Index_CRC, CRC(d9))

Mitsubishi_send_command_shared(old, a, t) ==
    LET d3 == FillHead(IF old = <<>> THEN Template ELSE old, a)
        c2 == climate2(a.climate_mode)
    IN  IF c2 = None
        THEN [outcome |-> "TypeError", data |-> d3, sent |-> <<>>, wire |-> <<>>]
        ELSE LET d == FillTailKeep(d3, a, t, c2)
             IN  [outcome |-> "ok", data |-> d, sent |-> d,
                  wire |-> Transmit(d)]

\* old: the list left by the previous call; the call builds a new list from
\* the literal and never reads the old one.  None | int raises TypeError.
Mitsubishi_send_command(old, a, t) ==
    LET d3 == FillHead(Template, a)
        c2 == climate2(a.climate_mode)
    IN  IF c2 = None
        THEN [outcome |-> "TypeError", data |-> d3, sent |-> <<>>, wire |-> <<>>]
        ELSE LET d == FillTail(d3, a, t, c2)
             IN  [outcome |-> "ok", data |-> d, sent |-> d,
                  wire |-> Transmit(d)]

(***************************************************************************)
(* Arguments of the two public operations.                                 *)
(***************************************************************************)
Args(op, cm, temp, fan, vv, vh, isee, area, st, et, pm) ==
    [op |-> op, climate_mode |-> cm, temperature |-> temp, fan_mode |-> fan,
     vanne_vertical_mode |-> vv, vanne_horizontal_mode |-> vh,
     isee_mode |-> isee, area_mode |-> area, start_time |-> st,
     end_time |-> et, power_mode |-> pm]

power_off_args_on ==
    Args("power_off", ClimateMode_Auto, 21, FanMode_Auto,
         VanneVerticalMode_Auto, VanneHorizontalMode_Swing,
         ISeeMode_NotAvailable, AreaMode_NotAvailable, None, None,
         PowerMode_PowerOn)

power_off_args ==
    Args("power_off", ClimateMode_Auto, 21, FanMode_Auto,
         VanneVerticalMode_Auto, VanneHorizontalMode_Swing,
         ISeeMode_NotAvailable, AreaMode_NotAvailable, None, None,
         PowerMode_PowerOff)

send_command_args(cm, temp, fan, vv, vh, isee, area, st, et) ==
    Args("send_command", cm, temp, fan, vv, vh, isee, area, st, et,
         PowerMode_PowerOn)

NoCall ==
    Args("none", ClimateMode_Auto, 21, FanMode_Auto, VanneVerticalMode_Auto,
         VanneHorizontalMode_NotAvailable, ISeeMode_NotAvailable,
         AreaMode_NotAvailable, None, None, PowerMode_PowerOff)

NoRef == [set |-> FALSE, call |-> NoCall, now |-> 0, sent |-> <<>>]

(***************************************************************************)
(* Explored inputs.                                                        *)
(***************************************************************************)
Temperatures ==
    (Constants_MinTemp - TempBelow)..(Constants_MaxTemp + TempAbove)
Hours == {h \in 0..23 : h % HourStride = 0} \cup {23}
Minutes == {m \in 0..59 : m % MinuteStride = 0} \cup {59}
Times == {h * 60 + m : h \in Hours, m \in Minutes}
OptTimes == {None} \cup Times
EdgeTimes == {0, 23 * 60 + 59}

\* integers that are none of the four climate codes
UnmappedClimateModes == {0, 4, 40}

\* send_command with the parameters not listed left at their defaults
Defaulted(cm, temp, fan, vv, vh, isee, area, st, et) ==
    send_command_args(cm, temp, fan, vv, vh, isee, area, st, et)

ClimateSettings ==
    {Defaulted(cm, 21, FanMode_Auto, VanneVerticalMode_Auto, vh, isee,
               AreaMode_NotAvailable, None, None) :
        cm \in ClimateModes \cup UnmappedClimateModes,
        vh \in VanneHorizontalModes, isee \in ISeeModes}

FanSettings ==
    {Defaulted(ClimateMode_Auto, 21, fan, vv, VanneHorizontalMode_NotAvailable,
               ISeeMode_NotAvailable, AreaMode_NotAvailable, None, None) :
        fan \in FanModes, vv \in VanneVerticalModes}

TemperatureSettings ==
    {Defaulted(cm, temp, FanMode_Speed3, VanneVerticalMode_Auto,
               VanneHorizontalMode_NotAvailable, ISeeMode_NotAvailable,
               AreaMode_NotAvailable, None, None) :
        cm \in {ClimateMode_Cold, 0}, temp \in Temperatures}

TimeSettings ==
    {Defaulted(ClimateMode_Auto, 21, FanMode_Auto, VanneVerticalMode_Auto,
               VanneHorizontalMode_NotAvailable, ISeeMode_NotAvailable,
               area, st, et) :
        area \in AreaModes, st \in OptTimes, et \in OptTimes}

\* <<settings, clock>> pairs of the explored send_command calls
Inputs ==
    ((ClimateSettings \cup FanSettings \cup TemperatureSettings) \X EdgeTimes)
    \cup (TimeSettings \X {12 * 60 + 30})

\* the smaller set explored together with the history of earlier calls
HistSettings ==
    {Defaulted(cm, 21, fan, vv, vh, isee, AreaMode_NotAvailable, st, None) :
        cm \in {ClimateMode_Hot, 0},
        fan \in {FanMode_Auto},
        vv \in {VanneVerticalMode_Auto},
        vh \in {VanneHorizontalMode_LeftEnd, VanneHorizontalMode_Left},
        isee \in {ISeeMode_ISeeOff, ISeeMode_ISeeOn},
        st \in {None, 12 * 60 + 30}}
    \cup
    {Defaulted(ClimateMode_Auto, 21, FanMode_Auto, VanneVerticalMode_Auto,
               VanneHorizontalMode_NotAvailable, ISeeMode_NotAvailable,
               AreaMode_NotAvailable, st, et) :
        st \in {None, 12 * 60 + 30}, et \in {None, 23 * 60 + 59}}
HistTimes == {12 * 60 + 30, 23 * 60 + 59}
HistInputs == HistSettings \X HistTimes

(***************************************************************************)
(* State machine.                                                          *)
(***************************************************************************)
Init ==
    /\ call = NoCall
    /\ now = 0
    /\ outcome = "none"
    /\ data = <<>>
    /\ sent = <<>>
    /\ wire = <<>>
    /\ ref = NoRef
    /\ prev_outcome = "none"

\* one call of __send_command with arguments a, the clock reading t
Do(a, t) ==
    \E r \in {Mitsubishi_send_command(data, a, t)} :
        /\ call' = a
        /\ now' = t
        /\ outcome' = r.outcome
        /\ data' = r.data
        /\ sent' = r.sent
        /\ wire' = r.wire

\* the history either keeps the remembered call or takes the call that is
\* now the previous one
Remember ==
    /\ prev_outcome' = outcome
    /\ \/ ref' = ref
       \/ /\ outcome = "ok"
          /\ ref' = [set |-> TRUE, call |-> call, now |-> now, sent |-> sent]

power_off ==
    /\ \E t \in Times : Do(power_off_args, t)
    /\ UNCHANGED <<ref, prev_outcome>>

send_command ==
    /\ \E i \in Inputs : Do(i[1], i[2])
    /\ UNCHANGED <<ref, prev_outcome>>

power_off_hist ==
    /\ \E t \in HistTimes : Do(power_off_args, t)
    /\ Remember

send_command_hist ==
    /\ \E i \in HistInputs : Do(i[1], i[2])
    /\ Remember

Next == power_off \/ send_command
Spec == Init /\ [][Next]_vars

NextHist == power_off_hist \/ send_command_hist
SpecHist == Init /\ [][NextHist]_vars

(***************************************************************************)
(* Properties.                                                             *)
(***************************************************************************)
Called == call.op # "none"
Valid == call.climate_mode \in ClimateModes
Byte(i) == sent[i + 1]
Sum17 ==
    Byte(0) + Byte(1) + Byte(2) + Byte(3) + Byte(4) + Byte(5) + Byte(6)
    + Byte(7) + Byte(8) + Byte(9) + Byte(10) + Byte(11) + Byte(12) + Byte(13)
    + Byte(14) + Byte(15) + Byte(16)
Presence(c) == <<c.start_time # None, c.end_time # None>>
SameAsRef == ref.set /\ call = ref.call /\ now = ref.now

\* C1: every call with settings from the enumerations hands over a frame of
\* exactly 18 bytes whose byte 17 is the sum of bytes 0..16 modulo 256.
C1_FrameChecksum ==
    (Called /\ Valid) =>
        /\ outcome = "ok"
        /\ Len(sent) = 18
        /\ \A i \in 0..17 : Byte(i) \in 0..255
        /\ Byte(17) = Sum17 % 256

C1_Witness ==
    /\ outcome = "ok"
    /\ call.op = "send_command"
    /\ call.start_time # None
    /\ call.end_time # None
    /\ Byte(11) > 0
    /\ Byte(17) = Sum17 % 256

\* C2: the Temperature byte is clamp(temperature, 16, 31) - 16, in 0..15:
\* 0 for every temperature up to 16, 15 for every temperature from 31, and
\* no temperature makes the call fail.
C2_TemperatureClamp ==
    (Called /\ Valid) =>
        /\ outcome = "ok"
        /\ Byte(7) \in 0..15
        /\ Byte(7) = IF call.temperature <= 16 THEN 0
                     ELSE IF call.temperature >= 31 THEN 15
                     ELSE call.temperature - 16

C2_Witness ==
    /\ outcome = "ok"
    /\ call.temperature = 40
    /\ Byte(7) = 15

\* C3: a frame sent by power_off has Power byte PowerOff (0); a frame sent
\* by send_command has Power byte PowerOn (0x20).
C3_PowerByte ==
    /\ call.op = "power_off" => (outcome = "ok" /\ Byte(5) = 0)
    /\ (call.op = "send_command" /\ outcome = "ok") => Byte(5) = 32

C3_Witness ==
    /\ call.op = "power_off"
    /\ outcome = "ok"
    /\ Byte(5) = 0
    /\ Byte(6) = 32

\* C4: a call made with the same settings and the same clock reading as a
\* remembered earlier call produces a byte-identical frame, whatever calls
\* were made in between; the bytes no setting writes are those of the
\* template.
C4_Deterministic ==
    outcome = "ok" =>
        /\ SameAsRef => sent = ref.sent
        /\ \A i \in {0, 1, 2, 3, 4, 14, 15, 16} : Byte(i) = Template[i + 1]

C4_Witness ==
    /\ outcome = "ok"
    /\ SameAsRef
    /\ sent = ref.sent
    /\ call.op = "send_command"
    /\ call.start_time = None
    /\ prev_outcome = "ok"

\* position in wire of the first segment of bit b of byte i in repetition n
PacketLen == 2 + 18 * 8 * 2 + 2
BitAt(n, i, b) == n * PacketLen + 2 + 2 * (8 * i + b) + 1
BitGap(v) == IF v = 1 THEN Delay_OneSpace ELSE Delay_ZeroSpace

\* C5: a call transmits its frame, checksum byte included, exactly twice in
\* a row: header mark and space, then for bytes 0..17 in order and bits from
\* least to most significant a BitMark pulse and a OneSpace (bit 1) or
\* ZeroSpace (bit 0) gap, then the trailing RptMark pulse and RptSpace gap.
C5_Transmission ==
    (Called /\ Valid) =>
        /\ outcome = "ok"
        /\ Byte(17) = Sum17 % 256
        /\ Len(wire) = 2 * PacketLen
        /\ \A n \in 0..1 :
            /\ wire[n * PacketLen + 1] = pulse(Delay_HdrMark)
            /\ wire[n * PacketLen + 2] = gap(Delay_HdrSpace)
            /\ \A i \in 0..17 : \A b \in 0..7 :
                /\ wire[BitAt(n, i, b)] = pulse(Delay_BitMark)
                /\ wire[BitAt(n, i, b) + 1] = gap(BitGap(Bit(Byte(i), b)))
            /\ wire[(n + 1) * PacketLen - 1] = pulse(Delay_RptMark)
            /\ wire[(n + 1) * PacketLen] = gap(Delay_RptSpace)

C5_Witness ==
    /\ outcome = "ok"
    /\ call.op = "send_command"
    /\ Len(wire) = 2 * PacketLen
    /\ Byte(17) # Template[18]
    /\ wire[BitAt(1, 17, 0) + 1] = gap(BitGap(Bit(Sum17, 0)))

\* the 16 segments emitted for byte i in the first repetition
ByteSegments(i) == SubSeq(wire, BitAt(0, i, 0), BitAt(0, i, 7) + 1)
ZeroBit == <<pulse(Delay_BitMark), gap(Delay_ZeroSpace)>>
OneBit == <<pulse(Delay_BitMark), gap(Delay_OneSpace)>>

\* C9 (as stated): a byte of value 0b00000001 is emitted as (BitMark,
\* ZeroSpace) seven times followed by (BitMark, OneSpace) once.
C9_Original ==
    outcome = "ok" =>
        \A i \in 0..17 : Byte(i) = 1 =>
            ByteSegments(i) = ZeroBit \o ZeroBit \o ZeroBit \o ZeroBit
                              \o ZeroBit \o ZeroBit \o ZeroBit \o OneBit

\* C9 (amended): a byte of value 0b00000001 is emitted as (BitMark,
\* OneSpace) once followed by (BitMark, ZeroSpace) seven times, its bits
\* going out least-significant bit first.
C9_LsbFirst ==
    outcome = "ok" =>
        \A i \in 0..17 : Byte(i) = 1 =>
            ByteSegments(i) = OneBit \o ZeroBit \o ZeroBit \o ZeroBit
                              \o ZeroBit \o ZeroBit \o ZeroBit \o ZeroBit

C9_Witness ==
    /\ outcome = "ok"
    /\ Byte(3) = 1
    /\ Byte(7) = 1
    /\ call.temperature = 17
    /\ ByteSegments(7)[2] = gap(Delay_OneSpace)

\* the schedule-mode code the claim assigns to a presence combination
ScheduleCode(c) ==
    IF c.start_time # None /\ c.end_time # None THEN TimeControlMode_ControlBoth
    ELSE IF c.end_time # None THEN TimeControlMode_ControlEnd
    ELSE IF c.start_time # None THEN TimeControlMode_ControlStart
    ELSE TimeControlMode_NoTimeControl

\* C6 (as stated): the TimeControlAndArea byte is the OR of the area-mode
\* code and the schedule-mode code of the presence combination, and calls
\* with different presence combinations and the same area code give
\* different bytes (the schedule mode can be read back from the byte).
C6_Original ==
    outcome = "ok" =>
        /\ Byte(13) = Or(ScheduleCode(call), call.area_mode)
        /\ (/\ ref.set
            /\ Presence(call) # Presence(ref.call)
            /\ call.area_mode = ref.call.area_mode)
           => Byte(13) # ref.sent[14]

\* C7 (as stated): the ClimateAndHorizontalVanne byte is the OR of the
\* horizontal-vane code and the climate mode's secondary code, which
\* differs from the mode's primary code.
C7_Original ==
    outcome = "ok" =>
        /\ Byte(8) = Or(climate2(call.climate_mode), call.vanne_horizontal_mode)
        /\ climate2(call.climate_mode) # call.climate_mode

\* C8: a send_command whose climate_mode is none of the four codes raises
\* before anything is handed to the transmitter, and the next call with
\* valid settings is served as usual: a well-formed frame, identical to the
\* one the same settings and clock produced before.
C8_FailFast ==
    /\ (Called /\ ~Valid) =>
        (outcome = "TypeError" /\ sent = <<>> /\ wire = <<>>)
    /\ (prev_outcome = "TypeError" /\ Called /\ Valid) =>
        /\ outcome = "ok"
        /\ Len(sent) = 18
        /\ Byte(17) = Sum17 % 256
        /\ Len(wire) = 2 * PacketLen
        /\ SameAsRef => sent = ref.sent

C8_Witness ==
    /\ prev_outcome = "TypeError"
    /\ outcome = "ok"
    /\ SameAsRef
    /\ sent = ref.sent
    /\ Len(wire) = 2 * PacketLen

\* C10 (as stated): in each of the three OR-combined bytes two different
\* pairs of codes never give the same byte value.
C10_Original ==
    (outcome = "ok" /\ ref.set) =>
        /\ <<call.climate_mode, call.isee_mode>>
             # <<ref.call.climate_mode, ref.call.isee_mode>>
           => Byte(6) # ref.sent[7]
        /\ <<climate2(call.climate_mode), call.vanne_horizontal_mode>>
             # <<climate2(ref.call.climate_mode), ref.call.vanne_horizontal_mode>>
           => Byte(8) # ref.sent[9]
        /\ <<call.fan_mode, call.vanne_vertical_mode>>
             # <<ref.call.fan_mode, ref.call.vanne_vertical_mode>>
           => Byte(9) # ref.sent[10]
====
